---- MODULE Spec2Model ----
(***************************************************************************)
(* Slot capacity / booking engine and order state machine of tnt-backend.  *)
(*                                                                         *)
(* Spec      : the booking engine. Request handlers of POST /slots and     *)
(*             POST /slots/{id}/book run concurrently; book is split at    *)
(*             the points where another handler can interleave (after the  *)
(*             router's slot query, after the Redis SET NX, after the      *)
(*             commit, after the DELETE). The Redis key expires by its TTL.*)
(* OrderSpec : the order state machine. Each order/payment handler is one  *)
(*             database transaction and is taken as one step.              *)
(* RewardSpec : OrderSpec with the reward rules and with completions whose *)
(*             reward processing fails.                                    *)
(* PlaceSpec : POST /orders/{slot_id} step by step, handlers interleaved,  *)
(*             with the shutdown flag, the university policy and the       *)
(*             idempotency keys.                                           *)
(* ShutdownSpec : the booking engine and order placement next to the       *)
(*             emergency shutdown flag.                                    *)
(* FacultySpec : the booking engine next to the faculty-priority policy.   *)
(* LoadSpec  : the load insights on any pair of counts.                    *)
(* CrashSpec : the booking engine with workers that die inside the         *)
(*             critical section; live handlers and the key's expiry are    *)
(*             weakly fair.                                                *)
(* QrSpec    : the QR pickup handlers on orders put in READY_FOR_PICKUP.   *)
(* OrderFairSpec : OrderSpec with requests that never cease to be served.  *)
(***************************************************************************)
EXTENDS Integers, Sequences, FiniteSets, TLC

\* ---------------------------------------------------------------- bounds
MaxSlots == 1          \* slot ids 1..MaxSlots
MaxOrders == 1         \* order ids 1..MaxOrders
MaxPayments == 1       \* payment ids 1..MaxPayments
MaxHistory == 2        \* OrderHistory rows followed per order
MaxCap == 3            \* max_orders of a created slot ranges over 0..MaxCap
NumProcs == 2          \* booking requests; each handler p serves one request
MaxLoad == 10          \* get_load_label is applied to counts in -1..MaxLoad

SlotIds == 1..MaxSlots
Procs == 1..NumProcs
Vendors == {101, 102}  \* user ids of the vendors
Students == {201, 202} \* user ids of the students
Users == Vendors \cup Students
Faculty == {301}       \* user id of a faculty member
Admins == {401}        \* user id of an admin
Callers == Users \cup Faculty \cup Admins
Hours == {11, 12}      \* start_time.hour of a created slot
OrderIds == 1..MaxOrders
OrderRows == 1..(MaxOrders + NumProcs) \* room for one more order per handler
Keys == {0, 1}         \* idempotency_key of a request; 0: none given
PaymentIds == 1..MaxPayments
\* the cart of a place_order request: MissingItem is one menu item id that
\* has no row (or is not available), 0 the empty cart, v one unit (price 1)
\* of a menu item of vendor v
MissingItem == -1
Items == {MissingItem, 0} \cup Vendors

VARIABLES
    slots,     \* table slots: id -> row (status "NONE": no such row)
    lock,      \* Redis: slot id -> TRUE iff key slot_lock:{id} exists
    pc,        \* handler p: position inside POST /slots/{id}/book
    req,       \* handler p: slot_id of its request
    sess,      \* handler p: the Slot object in its SQLAlchemy session
    code,      \* handler p: HTTP status of its response (0: none yet)
    callCur,   \* history: slots.current_orders when p called book_slot
    conc,      \* history: handlers in flight on the same slot during p's request
    orders,    \* table orders: id -> row (status "NONE": no such row)
    history,   \* table order_history: order id -> statuses of its rows, in order
    payments,  \* table payments: id -> row (status "NONE": no such row)
    shutdown,          \* Redis tnt:emergency_shutdown: TRUE iff enabled
    faculty_policy,    \* Redis tnt:policy:faculty_priority
    university_policy, \* Redis tnt:policy:university
    idem,              \* Redis idempotency:order:{phone}:{key}: the <<user, key>> set
    ppc,       \* handler p: position inside POST /orders/{slot_id}
    preq,      \* handler p: its place_order request and what it has read
    load,      \* a call of the load insights: its arguments and results
    reward_rule,          \* table reward_rules: TRUE iff an active ORDER_COMPLETION rule exists
    reward_transactions   \* table reward_transactions: order id -> number of its ORDER_COMPLETION rows

procVars == <<lock, pc, req, sess, code, callCur, conc>>

slotVars == <<slots, lock, pc, req, sess, code, callCur, conc>>

orderVars == <<orders, history, payments>>

policyVars == <<shutdown, faculty_policy, university_policy, idem>>

placeVars == <<ppc, preq>>

loadVars == <<load>>

rewardVars == <<reward_rule, reward_transactions>>

\* ------------------------------------------------------------- slot rows
NoSlot == [vendor_id |-> 0, start_hour |-> 0, max_orders |-> 0,
           current_orders |-> 0, status |-> "NONE"]

NoSess == [current_orders |-> 0, status |-> "NONE"]

SlotExists(s) == slots[s].status # "NONE"

\* slots/service.py:43  int(slot.max_orders * 0.7). The float product
\* truncated by int() equals floor(7*max/10) for every max_orders < 90.
LimitedThreshold(max_orders) == (7 * max_orders) \div 10

\* slots/service.py:41-44  the status the booking path assigns after the
\* increment; "KEEP" when neither branch assigns (the attribute is left as
\* loaded).
StatusAfterIncrement(current_orders, max_orders) ==
    IF current_orders >= max_orders THEN "FULL"
    ELSE IF current_orders >= LimitedThreshold(max_orders) THEN "LIMITED"
    ELSE "KEEP"

\* ------------------------------------------------- order and payment rows
NoOrder == [user_id |-> 0, slot_id |-> 0, vendor_id |-> 0, status |-> "NONE",
            total_amount |-> 0, qr_code |-> FALSE, pickup_confirmed_by |-> 0]

NoPayment == [order_id |-> 0, status |-> "NONE", razorpay_payment_id |-> FALSE]

OrderExists(o) == orders[o].status # "NONE"

PaymentExists(i) == payments[i].status # "NONE"

\* users.role of the seeded accounts
RoleOf(u) ==
    IF u \in Vendors THEN "vendor"
    ELSE IF u \in Faculty THEN "faculty"
    ELSE IF u \in Admins THEN "admin"
    ELSE "student"

\* ------------------------------------------------------------------ Init
SlotInit ==
    /\ slots = [s \in SlotIds |-> NoSlot]
    /\ lock = [s \in SlotIds |-> FALSE]
    /\ pc = [p \in Procs |-> "idle"]
    /\ req = [p \in Procs |-> 0]
    /\ sess = [p \in Procs |-> NoSess]
    /\ code = [p \in Procs |-> 0]
    /\ callCur = [p \in Procs |-> -1]
    /\ conc = [p \in Procs |-> {}]

OrderInit ==
    /\ orders = [o \in OrderRows |-> NoOrder]
    /\ history = [o \in OrderRows |-> <<>>]
    /\ payments = [i \in PaymentIds |-> NoPayment]

\* core/faculty_policy.py:6-10, core/university_policy.py:7-13,
\* core/emergency.py:4  the policy store before any admin request: the
\* fallback defaults; no idempotency key is set.
PolicyInit ==
    /\ shutdown = FALSE
    /\ faculty_policy = [enabled |-> FALSE, start_hour |-> 12, end_hour |-> 14]
    /\ university_policy = [enabled |-> FALSE, break_start_hour |-> 12,
                            break_end_hour |-> 14, max_orders_per_user |-> 3]
    /\ idem = {}

\* rewards/service.py:469-480  no reward rule exists until an admin
\* initialises the defaults; no points have been awarded
RewardInit ==
    /\ reward_rule = FALSE
    /\ reward_transactions = [o \in OrderRows |-> 0]

NoLoad == [current_orders |-> 0, max_orders |-> 0, label |-> "NONE", express |-> FALSE]

\* mutant of GetLoadLabel: utilization 0.8 is still MEDIUM
GetLoadLabel_MediumInclusive(current_orders, max_orders) ==
    IF max_orders <= 0 THEN "LOW"
    ELSE IF 10 * current_orders < 5 * max_orders THEN "LOW"
    ELSE IF 10 * current_orders <= 8 * max_orders THEN "MEDIUM"
    ELSE "HIGH"

\* core/load_insights.py:6-15  get_load_label. utilization is the float
\* current_orders / max_orders; compared with 0.5 and 0.8 it decides as the
\* exact fraction compared with 5/10 and 8/10 (for counts below 1500 the
\* rounding of the quotient never crosses a threshold).
GetLoadLabel(current_orders, max_orders) ==
    IF max_orders <= 0 THEN "LOW"
    ELSE IF 10 * current_orders < 5 * max_orders THEN "LOW"
    ELSE IF 10 * current_orders < 8 * max_orders THEN "MEDIUM"
    ELSE "HIGH"

\* mutant of IsExpressPickupEligible: the load label is not looked at
IsExpressPickupEligible_AnyLoad(current_orders, max_orders) ==
    IF max_orders <= 0 THEN FALSE
    ELSE IF max_orders - current_orders < 2 THEN FALSE
    ELSE TRUE

\* core/load_insights.py:18-26  is_express_pickup_eligible
IsExpressPickupEligible(current_orders, max_orders) ==
    IF max_orders <= 0 THEN FALSE
    ELSE IF max_orders - current_orders < 2 THEN FALSE
    ELSE GetLoadLabel(current_orders, max_orders) \in {"LOW", "MEDIUM"}

\* slots/router.py:58-68, 85-92 and orders/router.py:123-130  a response is
\* built: both load insights are computed from the two counts
LoadInsights ==
    /\ load.label = "NONE"
    /\ load' = [load EXCEPT
                   !.label = GetLoadLabel(load.current_orders, load.max_orders),
                   !.express = IsExpressPickupEligible(load.current_orders,
                                                       load.max_orders)]
    /\ UNCHANGED <<rewardVars, slotVars, orderVars, policyVars, placeVars>>

NoPlace == [user |-> 0, slot |-> 0, key |-> 0, item |-> 0, order |-> 0, code |-> 0]

PlaceInit ==
    /\ ppc = [p \in Procs |-> "idle"]
    /\ preq = [p \in Procs |-> NoPlace]

\* slots/router.py:19-68  POST /slots: a vendor creates a slot starting at
\* hour h; the row gets the next id, current_orders = 0 and status AVAILABLE
\* whatever max_orders.
CreateSlot(v, m, h) ==
    /\ \E s \in SlotIds :
        /\ ~SlotExists(s)
        /\ \A t \in SlotIds : t < s => SlotExists(t)
        /\ slots' = [slots EXCEPT ![s] =
                        [vendor_id |-> v, start_hour |-> h, max_orders |-> m,
                         current_orders |-> 0, status |-> "AVAILABLE"]]
    /\ UNCHANGED procVars
    /\ UNCHANGED <<loadVars, rewardVars, orderVars, policyVars, placeVars>>

InFlight(p) == pc[p] \in {"call", "locked", "release"}

\* mutant of IsSlotInFacultyPriorityWindow: the window opens after start_hour
IsSlotInFacultyPriorityWindow_LateStart(slot_hour) ==
    /\ faculty_policy.enabled
    /\ faculty_policy.start_hour < slot_hour
    /\ slot_hour < faculty_policy.end_hour

\* core/faculty_policy.py:47-54  is_slot_in_faculty_priority_window
IsSlotInFacultyPriorityWindow(slot_hour) ==
    /\ faculty_policy.enabled
    /\ faculty_policy.start_hour <= slot_hour
    /\ slot_hour < faculty_policy.end_hour

\* slots/router.py:72-82  what the router of POST /slots/{slot_id}/book raises
\* before it calls book_slot for caller u: 404 without the slot, 403 in the
\* faculty-priority window unless the role is faculty, admin or super_admin;
\* 0 when it goes on to book_slot.
BookGate(u, s) ==
    IF ~SlotExists(s) THEN 404
    ELSE IF /\ IsSlotInFacultyPriorityWindow(slots[s].start_hour)
            /\ RoleOf(u) \notin {"faculty", "admin", "super_admin"}
    THEN 403
    ELSE 0

\* slots/router.py:70-84  POST /slots/{slot_id}/book by caller u up to the
\* call of book_slot: the router queries the slot (404 if absent) and applies
\* the faculty-priority gate (403). The row it loads stays in the session's
\* identity map for the rest of the request.
BookRequest(p, u, s) ==
    /\ pc[p] = "idle"
    /\ req' = [req EXCEPT ![p] = s]
    /\ callCur' = [callCur EXCEPT ![p] = -1]
    /\ IF BookGate(u, s) # 0
       THEN /\ pc' = [pc EXCEPT ![p] = "done"]
            /\ code' = [code EXCEPT ![p] = BookGate(u, s)]
            /\ sess' = [sess EXCEPT ![p] = NoSess]
            /\ conc' = [conc EXCEPT ![p] = {}]
       ELSE /\ pc' = [pc EXCEPT ![p] = "call"]
            /\ code' = [code EXCEPT ![p] = 0]
            /\ sess' = [sess EXCEPT ![p] =
                           [current_orders |-> slots[s].current_orders,
                            status |-> slots[s].status]]
            /\ conc' = [q \in Procs |->
                           IF q = p THEN {r \in Procs \ {p} : InFlight(r) /\ req[r] = s}
                           ELSE IF InFlight(q) /\ req[q] = s THEN conc[q] \cup {p}
                           ELSE conc[q]]
    /\ UNCHANGED <<slots, lock>>
    /\ UNCHANGED <<loadVars, rewardVars, orderVars, policyVars, placeVars>>

\* mutant of Acquire: the SET sits inside the try, so the finally clause
\* deletes the key of the holder that won
Acquire_DropsLock(p) ==
    /\ pc[p] = "call"
    /\ callCur' = [callCur EXCEPT ![p] = slots[req[p]].current_orders]
    /\ IF lock[req[p]]
       THEN /\ pc' = [pc EXCEPT ![p] = "done"]
            /\ code' = [code EXCEPT ![p] = 429]
            /\ lock' = [lock EXCEPT ![req[p]] = FALSE]
       ELSE /\ pc' = [pc EXCEPT ![p] = "locked"]
            /\ code' = code
            /\ lock' = [lock EXCEPT ![req[p]] = TRUE]
    /\ UNCHANGED <<slots, req, sess, conc>>
    /\ UNCHANGED <<loadVars, rewardVars, orderVars, policyVars, placeVars>>

\* slots/service.py:14-25  redis SET slot_lock:{id} "locked" NX EX 5:
\* sets the key iff it does not exist; otherwise 429 at once.
Acquire(p) ==
    /\ pc[p] = "call"
    /\ callCur' = [callCur EXCEPT ![p] = slots[req[p]].current_orders]
    /\ IF lock[req[p]]
       THEN /\ pc' = [pc EXCEPT ![p] = "done"]
            /\ code' = [code EXCEPT ![p] = 429]
            /\ lock' = lock
       ELSE /\ pc' = [pc EXCEPT ![p] = "locked"]
            /\ code' = code
            /\ lock' = [lock EXCEPT ![req[p]] = TRUE]
    /\ UNCHANGED <<slots, req, sess, conc>>
    /\ UNCHANGED <<loadVars, rewardVars, orderVars, policyVars, placeVars>>

\* slots/service.py:28  db.query(Slot).filter(Slot.id == slot_id).first()
\* inside the lock. The request's session already holds this Slot (loaded by
\* the router, no commit since), and a Query does not overwrite the loaded
\* attributes of an object that is in the identity map: the object
\* book_slot works on carries the values read before the lock was taken.
QueriedSlot(p) == sess[p]

\* mutant of SlotIsFull: a slot is full only beyond its capacity
SlotIsFull_Beyond(current_orders, max_orders) == current_orders > max_orders

\* slots/service.py:33  if slot.current_orders >= slot.max_orders
SlotIsFull(current_orders, max_orders) == current_orders >= max_orders

\* slots/service.py:33-47  the critical section, up to and including the
\* commit and refresh. The flush writes only the columns whose value differs
\* from the loaded one, as absolute values (UPDATE ... SET current_orders = n).
Commit(p) ==
    /\ pc[p] = "locked"
    /\ LET s == req[p]
           obj == QueriedSlot(p)
           max_orders == slots[s].max_orders
       IN IF SlotIsFull(obj.current_orders, max_orders)
          THEN /\ slots' = [slots EXCEPT ![s].status =
                                 IF obj.status = "FULL" THEN @ ELSE "FULL"]
               /\ code' = [code EXCEPT ![p] = 400]
               /\ sess' = sess
          ELSE LET n == obj.current_orders + 1
                   st == StatusAfterIncrement(n, max_orders)
                   row == [slots[s] EXCEPT
                              !.current_orders = n,
                              !.status = IF st = "KEEP" \/ st = obj.status
                                         THEN @ ELSE st]
               IN /\ slots' = [slots EXCEPT ![s] = row]
                  /\ code' = [code EXCEPT ![p] = 200]
                  /\ sess' = [sess EXCEPT ![p] =
                                 [current_orders |-> row.current_orders,
                                  status |-> row.status]]
    /\ pc' = [pc EXCEPT ![p] = "release"]
    /\ UNCHANGED <<lock, req, callCur, conc>>
    /\ UNCHANGED <<loadVars, rewardVars, orderVars, policyVars, placeVars>>

\* mutant of Release: the key is deleted on the success path only
Release_OnSuccess(p) ==
    /\ pc[p] = "release"
    /\ lock' = IF code[p] = 200 THEN [lock EXCEPT ![req[p]] = FALSE] ELSE lock
    /\ pc' = [pc EXCEPT ![p] = "done"]
    /\ UNCHANGED <<slots, req, sess, code, callCur, conc>>
    /\ UNCHANGED <<loadVars, rewardVars, orderVars, policyVars, placeVars>>

\* slots/service.py:50-52  finally: redis DELETE slot_lock:{id}, whoever set
\* the key; then the response (or the HTTPException) leaves the handler.
Release(p) ==
    /\ pc[p] = "release"
    /\ lock' = [lock EXCEPT ![req[p]] = FALSE]
    /\ pc' = [pc EXCEPT ![p] = "done"]
    /\ UNCHANGED <<slots, req, sess, code, callCur, conc>>
    /\ UNCHANGED <<loadVars, rewardVars, orderVars, policyVars, placeVars>>

\* mutant of Expire: the key has no TTL of its own and goes only while the
\* handler that set it is alive
Expire_HolderAlive(s) ==
    /\ lock[s]
    /\ \E p \in Procs : pc[p] \in {"locked", "release"} /\ req[p] = s
    /\ lock' = [lock EXCEPT ![s] = FALSE]
    /\ UNCHANGED <<slots, pc, req, sess, code, callCur, conc>>
    /\ UNCHANGED <<loadVars, rewardVars, orderVars, policyVars, placeVars>>

\* slots/service.py:7,18  ex=LOCK_TTL: Redis drops the key 5 seconds after
\* the SET, whether or not the handler that set it has reached its DELETE.
Expire(s) ==
    /\ lock[s]
    /\ lock' = [lock EXCEPT ![s] = FALSE]
    /\ UNCHANGED <<slots, pc, req, sess, code, callCur, conc>>
    /\ UNCHANGED <<loadVars, rewardVars, orderVars, policyVars, placeVars>>

\* slots/service.py:27-52  the worker serving handler p dies between the SET
\* and the DELETE: before the commit nothing is written, after it the slot
\* row is; no response is sent, the finally clause does not run and the key
\* stays until its TTL.
Crash(p) ==
    /\ pc[p] \in {"locked", "release"}
    /\ pc' = [pc EXCEPT ![p] = "crashed"]
    /\ code' = [code EXCEPT ![p] = 0]
    /\ UNCHANGED <<slots, lock, req, sess, callCur, conc>>
    /\ UNCHANGED <<loadVars, rewardVars, orderVars, policyVars, placeVars>>

SlotNext ==
    \/ \E v \in Vendors, m \in 0..MaxCap : CreateSlot(v, m, 12)
    \/ \E p \in Procs, u \in Callers, s \in SlotIds : BookRequest(p, u, s)
    \/ \E p \in Procs : Acquire(p)
    \/ \E p \in Procs : Commit(p)
    \/ \E p \in Procs : Release(p)
    \/ \E s \in SlotIds : Expire(s)

\* ------------------------------------------------------ order state machine

\* mutant of UpdateOrderStatusCheck: a student may cancel until the order is
\* completed or cancelled
UpdateOrderStatusCheck_CancelLate(status, new_status, actor_role) ==
    IF actor_role = "student"
    THEN IF new_status # "CANCELLED" THEN 403
         ELSE IF status \in {"COMPLETED", "CANCELLED"} THEN 400
         ELSE 0
    ELSE IF actor_role = "vendor"
    THEN IF new_status = "CONFIRMED" /\ status # "PENDING" THEN 400
         ELSE IF new_status = "COMPLETED" /\ status # "CONFIRMED" THEN 400
         ELSE 0
    ELSE 0

\* mutant of UpdateOrderStatusCheck: the vendor's completion rule is missing
UpdateOrderStatusCheck_NoCompleteRule(status, new_status, actor_role) ==
    IF actor_role = "student"
    THEN IF new_status # "CANCELLED" THEN 403
         ELSE IF status # "PENDING" THEN 400
         ELSE 0
    ELSE IF actor_role = "vendor"
    THEN IF new_status = "CONFIRMED" /\ status # "PENDING" THEN 400
         ELSE 0
    ELSE 0

\* orders/service.py:36-61  update_order_status, the role rules: the HTTP
\* status of the rejection, 0 when the transition is let through.
UpdateOrderStatusCheck(status, new_status, actor_role) ==
    IF actor_role = "student"
    THEN IF new_status # "CANCELLED" THEN 403
         ELSE IF status # "PENDING" THEN 400
         ELSE 0
    ELSE IF actor_role = "vendor"
    THEN IF new_status = "CONFIRMED" /\ status # "PENDING" THEN 400
         ELSE IF new_status = "COMPLETED" /\ status # "CONFIRMED" THEN 400
         ELSE 0
    ELSE 0

\* the OrderHistory rows of an order are followed up to MaxHistory
CanLog(o) == Len(history[o]) < MaxHistory

\* the outcome of a handler that raises HTTPException(c) before any write
Rejected(c) == [code |-> c, orders |-> orders, history |-> history]

\* orders/service.py:30-74  update_order_status: the outcome of the call, as
\* the HTTP status with the tables orders and order_history the caller
\* commits. Past the role rules it sets Order.status and adds one
\* OrderHistory row carrying the new status.
UpdateOrderStatus(o, new_status, actor_role) ==
    IF UpdateOrderStatusCheck(orders[o].status, new_status, actor_role) # 0
    THEN Rejected(UpdateOrderStatusCheck(orders[o].status, new_status, actor_role))
    ELSE [code |-> 200,
          orders |-> [orders EXCEPT ![o].status = new_status],
          history |-> [history EXCEPT ![o] = Append(@, new_status)]]

\* a write of Order.status that bypasses update_order_status: no history row
SetOrderStatus(o, new_status) ==
    /\ orders' = [orders EXCEPT ![o].status = new_status]
    /\ UNCHANGED history

\* core/university_policy.py:60-61  is_hour_in_break_window
IsHourInBreakWindow(hour, start_hour, end_hour) ==
    start_hour <= hour /\ hour < end_hour

\* orders/router.py:63-72  the user's orders of the day that are not
\* CANCELLED (every order of a run is created on the same day)
ExistingOrders(u) ==
    Cardinality({o \in OrderRows : /\ OrderExists(o)
                                   /\ orders[o].user_id = u
                                   /\ orders[o].status # "CANCELLED"})

\* orders/router.py:51-74  the university policy checks of place_order on
\* the tables as given: 400 outside the break window or at the order limit,
\* 0 when the request goes on (also when the policy is disabled).
UniversityPolicyCheck(start_hour, existing_orders) ==
    IF ~university_policy.enabled THEN 0
    ELSE IF ~IsHourInBreakWindow(start_hour, university_policy.break_start_hour,
                                 university_policy.break_end_hour) THEN 400
    ELSE IF existing_orders >= university_policy.max_orders_per_user THEN 400
    ELSE 0

\* main.py:71-85 and orders/router.py:43-74  what a POST /orders/{slot_id}
\* without idempotency key is refused with before an order is created: 503
\* by the emergency shutdown gate, 404 without the slot, 400 by the
\* university policy; 0 when the handler goes on to create_order.
PlaceOrderGate(u, s) ==
    IF shutdown THEN 503
    ELSE IF ~SlotExists(s) THEN 404
    ELSE UniversityPolicyCheck(slots[s].start_hour, ExistingOrders(u))

\* orders/router.py:33-130  place_order: the HTTP status of the response.
\* The cart validation answers 400 for a missing menu item, before
\* create_order; add_items_to_order answers 400 for another vendor's item.
PlaceOrderStatus(u, s, item) ==
    IF PlaceOrderGate(u, s) # 0 THEN PlaceOrderGate(u, s)
    ELSE IF item = MissingItem THEN 400
    ELSE IF item # 0 /\ item # slots[s].vendor_id THEN 400
    ELSE 200

\* orders/service.py:10-27 with orders/router.py:103-112  the Order row of
\* user u on slot s once the request is over: PENDING, committed by
\* create_order; total_amount stays 0 when add_items_to_order raises.
NewOrder(u, s, item) ==
    [user_id |-> u, slot_id |-> s,
     vendor_id |-> slots[s].vendor_id, status |-> "PENDING",
     total_amount |-> IF item # 0 /\ item = slots[s].vendor_id THEN 1 ELSE 0,
     qr_code |-> FALSE, pickup_confirmed_by |-> 0]

\* orders/router.py:33-130 with orders/service.py:10-27 and
\* orders/item_service.py:8-37  POST /orders/{slot_id} without idempotency
\* key, served without interleaving. create_order commits the PENDING order
\* before the items are added, so the row exists when add_items_to_order
\* rejects an item. The handler never calls book_slot.
PlaceOrder(u, s, item) ==
    /\ UNCHANGED <<loadVars, rewardVars, slotVars, policyVars, placeVars>>
    /\ IF PlaceOrderGate(u, s) # 0 \/ item = MissingItem
       THEN UNCHANGED orderVars
       ELSE \E o \in OrderIds :
               /\ ~OrderExists(o)
               /\ \A n \in OrderIds : n < o => OrderExists(n)
               /\ orders' = [orders EXCEPT ![o] = NewOrder(u, s, item)]
               /\ UNCHANGED <<history, payments>>

\* ------------------------------- POST /orders/{slot_id}, step by step
\* The handler is split where another request can interleave: after the
\* middleware's read of the shutdown flag, after the policy checks, after
\* EXISTS, after SETEX, after create_order's commit.

PlaceDone(p, c) ==
    /\ ppc' = [ppc EXCEPT ![p] = "done"]
    /\ preq' = [preq EXCEPT ![p].code = c]

\* main.py:71-85  emergency_shutdown_gate on POST /orders/{slot_id} of user u
\* with idempotency key k and cart item: 503 while the flag is set, else the
\* request reaches place_order.
PlaceRequest(p, u, s, k, item) ==
    /\ ppc[p] = "idle"
    /\ IF shutdown
       THEN /\ ppc' = [ppc EXCEPT ![p] = "done"]
            /\ preq' = [preq EXCEPT ![p] =
                  [user |-> u, slot |-> s, key |-> k, item |-> item,
                   order |-> 0, code |-> 503]]
       ELSE /\ ppc' = [ppc EXCEPT ![p] = "policy"]
            /\ preq' = [preq EXCEPT ![p] =
                  [user |-> u, slot |-> s, key |-> k, item |-> item,
                   order |-> 0, code |-> 0]]
    /\ UNCHANGED <<loadVars, rewardVars, slotVars, orderVars, policyVars>>

\* orders/router.py:43-74  the slot query (404) and the university policy
\* checks (400): the count of the user's orders is read here, the order is
\* inserted later.
PlacePolicy(p) ==
    /\ ppc[p] = "policy"
    /\ IF ~SlotExists(preq[p].slot)
       THEN PlaceDone(p, 404)
       ELSE IF UniversityPolicyCheck(slots[preq[p].slot].start_hour,
                                     ExistingOrders(preq[p].user)) # 0
       THEN PlaceDone(p, 400)
       ELSE /\ ppc' = [ppc EXCEPT ![p] = IF preq[p].key # 0 THEN "exists" ELSE "create"]
            /\ UNCHANGED preq
    /\ UNCHANGED <<loadVars, rewardVars, slotVars, orderVars, policyVars>>

\* orders/router.py:77-80  redis_client.exists(key): 409 when the key is set
PlaceIdemExists(p) ==
    /\ ppc[p] = "exists"
    /\ IF <<preq[p].user, preq[p].key>> \in idem
       THEN PlaceDone(p, 409)
       ELSE /\ ppc' = [ppc EXCEPT ![p] = "setex"]
            /\ UNCHANGED preq
    /\ UNCHANGED <<loadVars, rewardVars, slotVars, orderVars, policyVars>>

\* orders/router.py:81  redis_client.setex(key, 3600, "1")
PlaceIdemSet(p) ==
    /\ ppc[p] = "setex"
    /\ idem' = idem \cup {<<preq[p].user, preq[p].key>>}
    /\ ppc' = [ppc EXCEPT ![p] = "create"]
    /\ UNCHANGED <<loadVars, rewardVars, slotVars, orderVars, preq, shutdown, faculty_policy, university_policy>>

\* orders/router.py:83-101 with orders/service.py:10-27  the cart
\* validation (400 for a missing or unavailable menu item; it only reads),
\* then create_order: the PENDING Order row is inserted and committed.
PlaceCreate(p) ==
    /\ ppc[p] = "create"
    /\ IF preq[p].item = MissingItem
       THEN /\ PlaceDone(p, 400)
            /\ UNCHANGED orders
       ELSE /\ \E o \in OrderRows :
                  /\ ~OrderExists(o)
                  /\ \A n \in OrderRows : n < o => OrderExists(n)
                  /\ orders' = [orders EXCEPT ![o] =
                                   NewOrder(preq[p].user, preq[p].slot, 0)]
                  /\ preq' = [preq EXCEPT ![p].order = o]
            /\ ppc' = [ppc EXCEPT ![p] = "items"]
    /\ UNCHANGED <<loadVars, rewardVars, slotVars, history, payments, policyVars>>

\* orders/router.py:103-130 with orders/item_service.py:8-37
\* add_items_to_order raises 400 for another vendor's item; otherwise
\* total_amount is set on the session's Order object and committed. The slot
\* is not booked.
PlaceItems(p) ==
    /\ ppc[p] = "items"
    /\ IF preq[p].item # 0 /\ preq[p].item # orders[preq[p].order].vendor_id
       THEN /\ PlaceDone(p, 400)
            /\ UNCHANGED orders
       ELSE /\ PlaceDone(p, 200)
            /\ orders' = [orders EXCEPT ![preq[p].order].total_amount =
                              IF preq[p].item # 0 THEN 1 ELSE 0]
    /\ UNCHANGED <<loadVars, rewardVars, slotVars, history, payments, policyVars>>

\* admin/router.py:81-92 with core/emergency.py:7-16  POST /admin/shutdown
SetEmergencyShutdown(enabled) ==
    /\ shutdown' = enabled
    /\ UNCHANGED <<loadVars, rewardVars, slotVars, orderVars, placeVars, faculty_policy, university_policy, idem>>

\* admin/router.py:137-149 with core/faculty_policy.py:13-28
\* POST /admin/policies/faculty-priority: 400 unless 0 <= start_hour <= 23,
\* 1 <= end_hour <= 24 and start_hour < end_hour.
SetFacultyPriorityPolicy(enabled, start_hour, end_hour) ==
    /\ IF \/ start_hour < 0 \/ start_hour > 23 \/ end_hour < 1 \/ end_hour > 24
          \/ end_hour <= start_hour
       THEN UNCHANGED faculty_policy
       ELSE faculty_policy' = [enabled |-> enabled, start_hour |-> start_hour,
                               end_hour |-> end_hour]
    /\ UNCHANGED <<loadVars, rewardVars, slotVars, orderVars, placeVars, shutdown, university_policy, idem>>

\* admin/router.py:157-183 with core/university_policy.py:34-57
\* POST /admin/policies/university with the default break window: 400 unless
\* max_orders_per_user >= 1.
SetUniversityPolicy(enabled, max_orders_per_user) ==
    /\ IF max_orders_per_user < 1
       THEN UNCHANGED university_policy
       ELSE university_policy' =
               [enabled |-> enabled, break_start_hour |-> 12,
                break_end_hour |-> 14, max_orders_per_user |-> max_orders_per_user]
    /\ UNCHANGED <<loadVars, rewardVars, slotVars, orderVars, placeVars, shutdown, faculty_policy, idem>>

\* rewards/service.py:172-196 with orders/service.py:73-74
\* process_order_completion_rewards, called by update_order_status whenever
\* the new status is COMPLETED: with an active ORDER_COMPLETION rule,
\* award_points adds one ORDER_COMPLETION transaction for the order (and the
\* points to the user's balance); nothing looks for an earlier transaction
\* of the same order.
ProcessOrderCompletionRewards(o) ==
    IF reward_rule
    THEN [reward_transactions EXCEPT ![o] = @ + 1]
    ELSE reward_transactions

\* rewards/router.py:140 with rewards/service.py:469-480  an admin
\* initialises the default rules, the ORDER_COMPLETION rule among them
InitializeDefaultRules ==
    /\ reward_rule' = TRUE
    /\ UNCHANGED <<reward_transactions, loadVars, slotVars, orderVars, policyVars, placeVars>>

\* orders/router.py:166-216  confirm_order / complete_order: the outcome of
\* the request. require_role("vendor") (403), the order must exist (404),
\* then update_order_status as "vendor". The order's vendor_id is not
\* compared with the caller.
VendorUpdateResult(v, o, new_status) ==
    IF RoleOf(v) # "vendor" THEN Rejected(403)
    ELSE IF ~OrderExists(o) THEN Rejected(404)
    ELSE UpdateOrderStatus(o, new_status, "vendor")

\* orders/router.py:166-216  POST /orders/{id}/confirm and /complete
VendorUpdate(v, o, new_status) ==
    /\ UNCHANGED <<loadVars, slotVars, policyVars, placeVars>>
    /\ VendorUpdateResult(v, o, new_status).code = 200 => CanLog(o)
    /\ orders' = VendorUpdateResult(v, o, new_status).orders
    /\ history' = VendorUpdateResult(v, o, new_status).history
    /\ reward_transactions' =
           IF VendorUpdateResult(v, o, new_status).code = 200 /\ new_status = "COMPLETED"
           THEN ProcessOrderCompletionRewards(o)
           ELSE reward_transactions
    /\ UNCHANGED <<payments, reward_rule>>

ConfirmOrder(v, o) == VendorUpdate(v, o, "CONFIRMED")

CompleteOrder(v, o) == VendorUpdate(v, o, "COMPLETED")

\* where process_order_completion_rewards raises: before anything is
\* committed, or after award_points (or get_or_create_reward_points)
\* committed the session
RewardFailures == {"raises", "raises_after_commit"}

\* orders/router.py:193-204 with orders/service.py:63-74 and
\* rewards/service.py:172-211  complete_order when
\* process_order_completion_rewards raises. update_order_status does not
\* catch the exception, so complete_order's db.commit() is not reached and
\* the session is closed with the status and the history row unflushed;
\* they are persisted only if award_points had committed the session before
\* the failure. The response is 500 either way.
CompleteOrderRewardsFailResult(v, o, failure) ==
    IF VendorUpdateResult(v, o, "COMPLETED").code # 200
    THEN VendorUpdateResult(v, o, "COMPLETED")
    ELSE IF failure = "raises_after_commit"
    THEN [VendorUpdateResult(v, o, "COMPLETED") EXCEPT !.code = 500]
    ELSE Rejected(500)

\* orders/router.py:193-204  POST /orders/{id}/complete, rewards failing
CompleteOrderRewardsFail(v, o, failure) ==
    /\ UNCHANGED <<loadVars, slotVars, policyVars, placeVars>>
    /\ failure = "raises_after_commit" => reward_rule
    /\ reward_transactions' =
           IF CompleteOrderRewardsFailResult(v, o, failure).orders # orders
           THEN ProcessOrderCompletionRewards(o)
           ELSE reward_transactions
    /\ UNCHANGED reward_rule
    /\ CompleteOrderRewardsFailResult(v, o, failure).orders # orders => CanLog(o)
    /\ orders' = CompleteOrderRewardsFailResult(v, o, failure).orders
    /\ history' = CompleteOrderRewardsFailResult(v, o, failure).history
    /\ UNCHANGED payments

\* orders/router.py:220-243  cancel_order: the outcome of the request. 404
\* unless the caller owns the order, then update_order_status as "student".
CancelOrderResult(u, o) ==
    IF ~OrderExists(o) \/ orders[o].user_id # u THEN Rejected(404)
    ELSE UpdateOrderStatus(o, "CANCELLED", "student")

\* orders/router.py:220-243  POST /orders/{id}/cancel
CancelOrder(u, o) ==
    /\ UNCHANGED <<loadVars, rewardVars, slotVars, policyVars, placeVars>>
    /\ CancelOrderResult(u, o).code = 200 => CanLog(o)
    /\ orders' = CancelOrderResult(u, o).orders
    /\ history' = CancelOrderResult(u, o).history
    /\ UNCHANGED payments

\* orders/qr_service.py:8-23  generate_qr_code: only for an order that is
\* READY_FOR_PICKUP (else ValueError, answered 400).
GenerateQr(o) ==
    /\ UNCHANGED <<loadVars, rewardVars, slotVars, policyVars, placeVars>>
    /\ IF ~OrderExists(o) \/ orders[o].status # "READY_FOR_PICKUP"
       THEN UNCHANGED orderVars
       ELSE /\ orders' = [orders EXCEPT ![o].qr_code = TRUE]
            /\ UNCHANGED <<history, payments>>

\* mutant of ConfirmPickupResult: the QR code's order need not be the
\* confirming vendor's
ConfirmPickupResult_AnyVendor(v, o) ==
    IF \/ ~OrderExists(o) \/ ~orders[o].qr_code
       \/ orders[o].status # "READY_FOR_PICKUP"
    THEN [ok |-> FALSE, orders |-> orders]
    ELSE [ok |-> TRUE,
          orders |-> [orders EXCEPT ![o].status = "COMPLETED",
                                    ![o].pickup_confirmed_by = v]]

\* orders/qr_service.py:26-42  confirm_pickup(qr_code, vendor_id) with the QR
\* code of order o (no order carries a code that was never generated): what
\* it returns and the orders table it leaves. False unless the order is the
\* vendor's and READY_FOR_PICKUP; else COMPLETED with pickup_confirmed_by.
ConfirmPickupResult(v, o) ==
    IF \/ ~OrderExists(o) \/ ~orders[o].qr_code
       \/ orders[o].vendor_id # v
       \/ orders[o].status # "READY_FOR_PICKUP"
    THEN [ok |-> FALSE, orders |-> orders]
    ELSE [ok |-> TRUE,
          orders |-> [orders EXCEPT ![o].status = "COMPLETED",
                                    ![o].pickup_confirmed_by = v]]

\* orders/router.py:326-338  POST /orders/qr/pickup/confirm by vendor v (400
\* when confirm_pickup returns False); no history row, no reward processing
ConfirmPickup(v, o) ==
    /\ UNCHANGED <<loadVars, rewardVars, slotVars, policyVars, placeVars>>
    /\ orders' = ConfirmPickupResult(v, o).orders
    /\ UNCHANGED <<history, payments>>

\* test_qr_pickup.py:117-119  the order is put in READY_FOR_PICKUP by a
\* write to the orders table: no handler of the application assigns this
\* status
MarkReadyForPickup(o) ==
    /\ OrderExists(o)
    /\ SetOrderStatus(o, "READY_FOR_PICKUP")
    /\ UNCHANGED payments
    /\ UNCHANGED <<loadVars, rewardVars, slotVars, policyVars, placeVars>>

\* payments/service.py:18-49  initiate_payment: any caller, any order whose
\* total_amount is positive (else 400; 404 without the order), whatever its
\* status.
InitiatePayment(o) ==
    /\ UNCHANGED <<loadVars, rewardVars, slotVars, policyVars, placeVars>>
    /\ IF ~OrderExists(o) \/ orders[o].total_amount <= 0
       THEN UNCHANGED orderVars
       ELSE \E i \in PaymentIds :
               /\ ~PaymentExists(i)
               /\ \A n \in PaymentIds : n < i => PaymentExists(n)
               /\ payments' = [payments EXCEPT ![i] =
                      [order_id |-> o, status |-> "INITIATED",
                       razorpay_payment_id |-> FALSE]]
               /\ UNCHANGED <<orders, history>>

\* payments/service.py:52-95  verify_payment: 404 without the payment; a
\* wrong signature marks the payment FAILED (400); a right one marks it
\* SUCCESS, stores the Razorpay payment id and sets the order CONFIRMED,
\* whatever the order's status.
VerifyPayment(i, signature_ok) ==
    /\ UNCHANGED <<loadVars, rewardVars, slotVars, policyVars, placeVars>>
    /\ IF ~PaymentExists(i)
       THEN UNCHANGED orderVars
       ELSE IF ~signature_ok
       THEN /\ payments' = [payments EXCEPT ![i].status = "FAILED"]
            /\ UNCHANGED <<orders, history>>
       ELSE /\ payments' = [payments EXCEPT ![i].status = "SUCCESS",
                                            ![i].razorpay_payment_id = TRUE]
            /\ SetOrderStatus(payments[i].order_id, "CONFIRMED")

\* mutant of WebhookStatus: a failed payment reopens the order
WebhookStatus_FailedReopens(event) ==
    IF event = "payment.captured" THEN <<"SUCCESS", "CONFIRMED">>
    ELSE IF event = "payment.failed" THEN <<"FAILED", "PENDING">>
    ELSE IF event = "refund.processed" THEN <<"REFUNDED", "CANCELLED">>
    ELSE <<"", "">>

\* payments/webhook.py:39-52  the payment status and order status an event
\* sets; <<"", "">> for an event the handler has no branch for.
WebhookStatus(event) ==
    IF event = "payment.captured" THEN <<"SUCCESS", "CONFIRMED">>
    ELSE IF event = "payment.failed" THEN <<"FAILED", "CANCELLED">>
    ELSE IF event = "refund.processed" THEN <<"REFUNDED", "CANCELLED">>
    ELSE <<"", "">>

\* payments/webhook.py:13-55  razorpay_webhook for the Razorpay payment id of
\* payment i: ignored unless a payment row carries that id; otherwise the
\* event sets payment and order status, whatever the order's status.
RazorpayWebhook(i, event) ==
    /\ UNCHANGED <<loadVars, rewardVars, slotVars, policyVars, placeVars>>
    /\ IF \/ ~PaymentExists(i) \/ ~payments[i].razorpay_payment_id
          \/ WebhookStatus(event)[1] = ""
       THEN UNCHANGED orderVars
       ELSE /\ payments' = [payments EXCEPT ![i].status = WebhookStatus(event)[1]]
            /\ SetOrderStatus(payments[i].order_id, WebhookStatus(event)[2])

\* payments/service.py:99-158  refund_payment: the order's owner (or an
\* admin) refunds a SUCCESS payment (else 404, 403, 400); the order is set
\* CANCELLED, whatever its status.
RefundPayment(u, i) ==
    /\ UNCHANGED <<loadVars, rewardVars, slotVars, policyVars, placeVars>>
    /\ IF \/ ~PaymentExists(i)
          \/ orders[payments[i].order_id].user_id # u
          \/ payments[i].status # "SUCCESS"
       THEN UNCHANGED orderVars
       ELSE /\ payments' = [payments EXCEPT ![i].status = "REFUNDED"]
            /\ SetOrderStatus(payments[i].order_id, "CANCELLED")

WebhookEvents == {"payment.captured", "payment.failed", "refund.processed", "payment.authorized"}

\* the order and payment handlers, with orders placed on the first slot: of a
\* slot the handlers read only that it exists and its vendor_id
OrderNext ==
    \/ \E v \in Vendors : ~SlotExists(1) /\ CreateSlot(v, MaxCap, 12)
    \/ \E u \in Students, s \in SlotIds, item \in Items : PlaceOrder(u, s, item)
    \/ \E v \in Users, o \in OrderIds : ConfirmOrder(v, o)
    \/ \E v \in Users, o \in OrderIds : CompleteOrder(v, o)
    \/ \E u \in Students, o \in OrderIds : CancelOrder(u, o)
    \/ \E o \in OrderIds : GenerateQr(o)
    \/ \E v \in Vendors, o \in OrderIds : ConfirmPickup(v, o)
    \/ \E o \in OrderIds : InitiatePayment(o)
    \/ \E i \in PaymentIds, ok \in BOOLEAN : VerifyPayment(i, ok)
    \/ \E i \in PaymentIds, e \in WebhookEvents : RazorpayWebhook(i, e)
    \/ \E u \in Students, i \in PaymentIds : RefundPayment(u, i)

vars == <<slots, lock, pc, req, sess, code, callCur, conc,
          orders, history, payments,
          shutdown, faculty_policy, university_policy, idem, ppc, preq, load,
          reward_rule, reward_transactions>>

Init ==
    SlotInit /\ OrderInit /\ PolicyInit /\ PlaceInit /\ RewardInit /\ load = NoLoad

Next == SlotNext

\* order placement step by step, within the hour after the first request (no
\* idempotency key expires), next to the admin's shutdown requests and the
\* owners' cancels; the admin sets the university policy before the first
\* order request
PlaceNext ==
    \/ \E v \in Vendors, m \in {0, MaxCap}, h \in Hours : CreateSlot(v, m, h)
    \/ \E enabled \in BOOLEAN : SetEmergencyShutdown(enabled)
    \/ /\ \A p \in Procs : ppc[p] = "idle"
       /\ \E enabled \in BOOLEAN, m \in 0..1 : SetUniversityPolicy(enabled, m)
    \/ \E p \in Procs, u \in Students, s \in SlotIds, k \in Keys, item \in Items :
          PlaceRequest(p, u, s, k, item)
    \/ \E p \in Procs : PlacePolicy(p)
    \/ \E p \in Procs : PlaceIdemExists(p)
    \/ \E p \in Procs : PlaceIdemSet(p)
    \/ \E p \in Procs : PlaceCreate(p)
    \/ \E p \in Procs : PlaceItems(p)
    \/ \E u \in Students, o \in OrderRows : CancelOrder(u, o)

PlaceSpec == Init /\ [][PlaceNext]_vars

\* the order and payment handlers, reward processing failing or not
RewardNext ==
    \/ OrderNext
    \/ InitializeDefaultRules
    \/ \E v \in Vendors, o \in OrderIds, failure \in RewardFailures :
          CompleteOrderRewardsFail(v, o, failure)

RewardSpec == Init /\ [][RewardNext]_vars

\* the booking engine and order placement next to the admin's shutdown
\* requests, which arrive while no booking request is in flight
ShutdownNext ==
    \/ SlotNext
    \/ /\ \A p \in Procs : ~InFlight(p)
       /\ \E enabled \in BOOLEAN : SetEmergencyShutdown(enabled)
    \/ \E u \in Students, s \in SlotIds, item \in Items : PlaceOrder(u, s, item)

ShutdownSpec == Init /\ [][ShutdownNext]_vars

\* the booking engine on slots of capacity 0 or MaxCap of one vendor (booking
\* reads nothing of the vendor), next to the admin's faculty-priority policy
\* requests
FacultyNext ==
    \/ \E m \in {0, MaxCap}, h \in Hours : CreateSlot(101, m, h)
    \/ \E enabled \in BOOLEAN, end_hour \in {12, 14} :
          SetFacultyPriorityPolicy(enabled, 12, end_hour)
    \/ \E p \in Procs, u \in Callers, s \in SlotIds : BookRequest(p, u, s)
    \/ \E p \in Procs : Acquire(p)
    \/ \E p \in Procs : Commit(p)
    \/ \E p \in Procs : Release(p)
    \/ \E s \in SlotIds : Expire(s)

FacultySpec == Init /\ [][FacultyNext]_vars

\* the load insights on any pair of counts in -1..MaxLoad
LoadInit ==
    /\ SlotInit /\ OrderInit /\ PolicyInit /\ PlaceInit /\ RewardInit
    /\ load \in [current_orders : -1..MaxLoad, max_orders : -1..MaxLoad,
                 label : {"NONE"}, express : {FALSE}]

LoadNext == LoadInsights

LoadSpec == LoadInit /\ [][LoadNext]_vars

Spec == Init /\ [][Next]_vars

\* the QR pickup handlers on a database in which orders are put in
\* READY_FOR_PICKUP from outside, next to the handlers that move an order
\* that carries a QR code to another status
QrNext ==
    \/ ~SlotExists(1) /\ CreateSlot(101, MaxCap, 12)
    \/ \E u \in Students, item \in {0, 101} : PlaceOrder(u, 1, item)
    \/ \E o \in OrderIds : MarkReadyForPickup(o)
    \/ \E o \in OrderIds : GenerateQr(o)
    \/ \E v \in Vendors, o \in OrderIds : ConfirmPickup(v, o)
    \/ \E v \in Vendors, o \in OrderIds : ConfirmOrder(v, o)
    \/ \E u \in Students, o \in OrderIds : CancelOrder(u, o)
    \/ \E o \in OrderIds : InitiatePayment(o)
    \/ \E i \in PaymentIds : VerifyPayment(i, TRUE)

QrSpec == Init /\ [][QrNext]_vars

\* the order and payment handlers, requests never ceasing to be served
OrderFairSpec == Init /\ [][OrderNext]_vars /\ WF_vars(OrderNext)

\* the booking engine with worker crashes. A handler that is not killed runs
\* on to its response, and Redis drops an expired key: weak fairness on the
\* steps of book_slot and on the expiry. Locks are per slot: the requests
\* are those on the first slot.
CrashNext ==
    \/ \E m \in {1, MaxCap} : ~SlotExists(1) /\ CreateSlot(101, m, 12)
    \/ \E p \in Procs, u \in Students : BookRequest(p, u, 1)
    \/ \E p \in Procs : Acquire(p)
    \/ \E p \in Procs : Commit(p)
    \/ \E p \in Procs : Release(p)
    \/ \E s \in SlotIds : Expire(s)
    \/ \E p \in Procs : Crash(p)

CrashSpec ==
    /\ Init /\ [][CrashNext]_vars
    /\ \A s \in SlotIds : WF_vars(Expire(s))
    /\ \A p \in Procs : WF_vars(Acquire(p)) /\ WF_vars(Commit(p)) /\ WF_vars(Release(p))

OrderSpec == Init /\ [][OrderNext]_vars

\* ================================================================ claims

InCriticalSection(p) == pc[p] \in {"locked", "release"}

\* C1 (as claimed): no oversell. current_orders never exceeds max_orders,
\* and every booking attempt that enters book_slot's critical section once
\* current_orders = max_orders ends with 400 'Slot full'.
C1_NoOversell ==
    /\ \A s \in SlotIds : slots[s].current_orders <= slots[s].max_orders
    /\ \A p \in Procs :
          (/\ pc[p] \in {"release", "done"}
           /\ code[p] \in {200, 400}
           /\ callCur[p] = slots[req[p]].max_orders) => code[p] = 400

\* C2 (as claimed): for one slot, no two callers are both between their
\* lock acquire and their release, TTL expiry and unconditional DELETE
\* included.
C2_MutualExclusion ==
    \A p, q \in Procs :
        (p # q /\ InCriticalSection(p) /\ InCriticalSection(q)) => req[p] # req[q]

\* C3 (as claimed): two callers concurrent only with each other, both calling
\* book_slot while current_orders = max_orders - 1: exactly one gets 200, the
\* other 400 or 429.
C3_ExactlyOneWins ==
    \A p, q \in Procs :
        (/\ p # q
         /\ pc[p] = "done" /\ pc[q] = "done"
         /\ req[p] = req[q] /\ SlotExists(req[p])
         /\ conc[p] = {q} /\ conc[q] = {p}
         /\ callCur[p] = slots[req[p]].max_orders - 1
         /\ callCur[q] = slots[req[p]].max_orders - 1)
        => \/ code[p] = 200 /\ code[q] \in {400, 429}
           \/ code[q] = 200 /\ code[p] \in {400, 429}

\* C4 (as claimed): status is the stated function of occupancy in every
\* reachable state: FULL iff current >= max, LIMITED iff
\* 0.7*max <= current < max, AVAILABLE otherwise.
ClaimedStatus(current_orders, max_orders) ==
    IF current_orders >= max_orders THEN "FULL"
    ELSE IF 10 * current_orders >= 7 * max_orders THEN "LIMITED"
    ELSE "AVAILABLE"

C4_StatusIsFunctionOfOccupancy ==
    \A s \in SlotIds :
        SlotExists(s) =>
            slots[s].status = ClaimedStatus(slots[s].current_orders, slots[s].max_orders)

Terminal == {"COMPLETED", "CANCELLED"}

\* C5 (as claimed): COMPLETED and CANCELLED are terminal; no operation
\* changes the status of an order that is COMPLETED or CANCELLED.
C5_TerminalIsFinal ==
    [][\A o \in OrderIds :
          orders[o].status \in Terminal => orders'[o].status = orders[o].status]_vars

\* C6: an order that has left PENDING is never PENDING again (and its row
\* is never removed); in particular no sequence of operations brings a
\* COMPLETED or CANCELLED order back to PENDING.
C6_NeverBackToPending ==
    [][\A o \in OrderIds :
          orders[o].status \notin {"NONE", "PENDING"}
              => orders'[o].status \notin {"NONE", "PENDING"}]_vars

\* C6 witness: an order that was cancelled (its first history row) has been
\* moved again by a later operation, to CONFIRMED.
C6_Witness ==
    \E o \in OrderIds :
        /\ Len(history[o]) >= 1 /\ history[o][1] = "CANCELLED"
        /\ orders[o].status = "CONFIRMED"

\* C7 (as claimed): every step that changes the status of an existing order
\* appends exactly one history row carrying the new status, so the history
\* rows of an order count its status changes.
C7_HistoryCountsChanges ==
    [][\A o \in OrderIds :
          (OrderExists(o) /\ orders'[o].status # orders[o].status)
              => history'[o] = Append(history[o], orders'[o].status)]_vars

\* C8: whatever the state, a cancel request by the order's owner on a
\* PENDING order answers 200 and moves the order to CANCELLED with one new
\* history row; on an owned order in any other status it answers 400 and by a
\* non-owner 404, and both rejections leave orders and history as they were.
C8_CancelRule ==
    \A u \in Students, o \in OrderIds :
        IF OrderExists(o) /\ orders[o].user_id = u /\ orders[o].status = "PENDING"
        THEN /\ CancelOrderResult(u, o).code = 200
             /\ CancelOrderResult(u, o).orders[o].status = "CANCELLED"
             /\ CancelOrderResult(u, o).history[o] = Append(history[o], "CANCELLED")
        ELSE /\ CancelOrderResult(u, o).code =
                    (IF OrderExists(o) /\ orders[o].user_id = u THEN 400 ELSE 404)
             /\ CancelOrderResult(u, o).orders = orders
             /\ CancelOrderResult(u, o).history = history

\* C8 witness: an order was cancelled by its owner's request, and a second
\* cancel of it by the owner is answered 400
C8_Witness ==
    \E o \in OrderIds :
        /\ orders[o].status = "CANCELLED"
        /\ history[o] = <<"CANCELLED">>
        /\ CancelOrderResult(orders[o].user_id, o).code = 400

\* C9: whatever the state, a vendor's confirm answers 200 exactly on a PENDING
\* order and a vendor's complete exactly on a CONFIRMED order, setting the
\* new status; on an order in another status each answers 400 and leaves
\* orders and history as they were.
C9_VendorRule ==
    \A v \in Vendors, o \in OrderIds :
        OrderExists(o) =>
            /\ IF orders[o].status = "PENDING"
               THEN /\ VendorUpdateResult(v, o, "CONFIRMED").code = 200
                    /\ VendorUpdateResult(v, o, "CONFIRMED").orders[o].status = "CONFIRMED"
               ELSE /\ VendorUpdateResult(v, o, "CONFIRMED").code = 400
                    /\ VendorUpdateResult(v, o, "CONFIRMED").orders = orders
                    /\ VendorUpdateResult(v, o, "CONFIRMED").history = history
            /\ IF orders[o].status = "CONFIRMED"
               THEN /\ VendorUpdateResult(v, o, "COMPLETED").code = 200
                    /\ VendorUpdateResult(v, o, "COMPLETED").orders[o].status = "COMPLETED"
               ELSE /\ VendorUpdateResult(v, o, "COMPLETED").code = 400
                    /\ VendorUpdateResult(v, o, "COMPLETED").orders = orders
                    /\ VendorUpdateResult(v, o, "COMPLETED").history = history

\* C9 witness: an order was confirmed and then completed by vendor requests,
\* and a further complete of it is answered 400
C9_Witness ==
    \E o \in OrderIds :
        /\ history[o] = <<"CONFIRMED", "COMPLETED">>
        /\ orders[o].status = "COMPLETED"
        /\ VendorUpdateResult(orders[o].vendor_id, o, "COMPLETED").code = 400

\* C10 (as claimed): whatever the state, a confirm or complete request from a
\* vendor other than the order's vendor leaves the order's status as it was.
C10_OnlyOwningVendor ==
    \A v \in Vendors, o \in OrderIds :
        (OrderExists(o) /\ orders[o].vendor_id # v) =>
            /\ VendorUpdateResult(v, o, "CONFIRMED").orders[o].status = orders[o].status
            /\ VendorUpdateResult(v, o, "COMPLETED").orders[o].status = orders[o].status

\* C11 (as claimed): every step that creates an order increases the
\* current_orders of the order's slot by exactly 1.
C11_PlaceOrderBooksSlot ==
    [][\A o \in OrderRows :
          (~OrderExists(o) /\ orders'[o].status # "NONE")
              => slots'[orders'[o].slot_id].current_orders =
                     slots[orders'[o].slot_id].current_orders + 1]_vars

\* C12 (as claimed): once a place_order request against a slot with
\* max_orders = 0 is over, no order row references that slot.
C12_NoOrderOnZeroCapacitySlot ==
    \A p \in Procs :
        (/\ ppc[p] = "done"
         /\ SlotExists(preq[p].slot)
         /\ slots[preq[p].slot].max_orders = 0)
            => \A o \in OrderRows : orders[o].slot_id # preq[p].slot

\* C13 (as claimed): a vendor's complete of a CONFIRMED order during which
\* process_order_completion_rewards fails, wherever it fails, leaves the
\* order COMPLETED with its history row.
C13_RewardFailureKeepsCompletion ==
    \A v \in Vendors, o \in OrderIds, failure \in RewardFailures :
        orders[o].status = "CONFIRMED"
            => /\ CompleteOrderRewardsFailResult(v, o, failure).orders[o].status = "COMPLETED"
               /\ CompleteOrderRewardsFailResult(v, o, failure).history[o] =
                      Append(history[o], "COMPLETED")

\* C14 (as claimed): of the place_order requests of one user with one
\* idempotency key, at most one gets past the idempotency check and creates
\* an order.
C14_IdempotentPlaceOrder ==
    \A p, q \in Procs :
        (/\ p # q
         /\ preq[p].key # 0
         /\ preq[p].key = preq[q].key
         /\ preq[p].user = preq[q].user
         /\ preq[p].order # 0)
            => preq[q].order = 0

\* C15: while the faculty-priority policy is enabled and the slot's start
\* hour is inside its window, the router of POST /slots/{id}/book lets
\* faculty and admin callers through to book_slot and answers 403 to every
\* other caller; a request answered 403 is over without having called
\* book_slot, and the step that answers it changes neither a slot nor a lock.
C15_FacultyPriorityGate ==
    /\ [](\A u \in Callers, s \in SlotIds :
            (/\ SlotExists(s)
             /\ faculty_policy.enabled
             /\ faculty_policy.start_hour <= slots[s].start_hour
             /\ slots[s].start_hour < faculty_policy.end_hour)
                => BookGate(u, s) =
                       (IF RoleOf(u) \in {"faculty", "admin", "super_admin"}
                        THEN 0 ELSE 403))
    /\ [](\A p \in Procs : code[p] = 403 => pc[p] = "done" /\ callCur[p] = -1)
    /\ [][\A p \in Procs :
            (code'[p] = 403 /\ code[p] # 403) => UNCHANGED <<slots, lock>>]_vars

\* C15 witness: inside the enabled window one request was answered 403 and
\* another one booked the same slot
C15_Witness ==
    \E p, q \in Procs :
        /\ code[p] = 403 /\ code[q] = 200 /\ req[p] = req[q]
        /\ IsSlotInFacultyPriorityWindow(slots[req[p]].start_hour)

\* C16 (as claimed): while the emergency shutdown is enabled, no step creates
\* an order or changes a slot's current_orders.
C16_ShutdownFreezes ==
    [][(shutdown /\ shutdown')
          => /\ \A o \in OrderRows : orders'[o].status # "NONE" => OrderExists(o)
             /\ \A s \in SlotIds :
                   slots'[s].current_orders = slots[s].current_orders]_vars

\* C17 (as claimed): while the university policy is enabled, no user has
\* more non-cancelled orders than max_orders_per_user.
C17_OrderLimit ==
    university_policy.enabled
        => \A u \in Students :
              ExistingOrders(u) <= university_policy.max_orders_per_user

\* C18: get_load_label answers for every pair of counts, and the answer is
\* LOW if max <= 0; otherwise LOW iff 2*current < max, MEDIUM iff
\* 2*current >= max and 5*current < 4*max, HIGH iff 5*current >= 4*max.
C18_LoadLabelReference ==
    load.label # "NONE" =>
        load.label =
            (IF load.max_orders <= 0 THEN "LOW"
             ELSE IF 2 * load.current_orders < load.max_orders THEN "LOW"
             ELSE IF 5 * load.current_orders < 4 * load.max_orders THEN "MEDIUM"
             ELSE "HIGH")

\* C18 witness: utilization exactly 0.8 was labelled HIGH
C18_Witness ==
    /\ load.max_orders > 0
    /\ 5 * load.current_orders = 4 * load.max_orders
    /\ load.label = "HIGH"

\* C19: is_express_pickup_eligible is true exactly when max > 0,
\* max - current >= 2 and the load label is LOW or MEDIUM.
C19_ExpressEligibility ==
    load.label # "NONE" =>
        (load.express <=>
            /\ load.max_orders > 0
            /\ load.max_orders - load.current_orders >= 2
            /\ load.label \in {"LOW", "MEDIUM"})

\* C19 witness: a HIGH-load slot with two orders of capacity left was found
\* not eligible
C19_Witness ==
    /\ load.label = "HIGH"
    /\ load.max_orders - load.current_orders >= 2
    /\ ~load.express

\* C20 (as claimed): every booking attempt on a slot with max_orders = 0 is
\* answered 400 'Slot full', and the slot's current_orders stays 0.
C20_ZeroCapacityAlwaysFull ==
    /\ \A s \in SlotIds :
          (SlotExists(s) /\ slots[s].max_orders = 0) => slots[s].current_orders = 0
    /\ \A p \in Procs :
          (/\ pc[p] = "done" /\ code[p] # 404
           /\ slots[req[p]].max_orders = 0)
              => code[p] = 400

\* C20 (amended): no booking attempt on a slot with max_orders = 0 succeeds:
\* it is answered 400 'Slot full', or 429 when the lock is held, or 403 by the
\* faculty-priority gate; the slot's current_orders stays 0.
C20_ZeroCapacityNeverBooks ==
    /\ \A s \in SlotIds :
          (SlotExists(s) /\ slots[s].max_orders = 0) => slots[s].current_orders = 0
    /\ \A p \in Procs :
          (/\ pc[p] = "done" /\ code[p] # 404
           /\ slots[req[p]].max_orders = 0)
              => code[p] \in {400, 429, 403}

\* C20 witness: an attempt on a zero-capacity slot went through the critical
\* section and was answered 400; the slot is FULL with no order
C20_Witness ==
    \E p \in Procs :
        /\ pc[p] = "done" /\ code[p] = 400 /\ callCur[p] = 0
        /\ slots[req[p]].max_orders = 0
        /\ slots[req[p]].status = "FULL"
        /\ slots[req[p]].current_orders = 0

\* C21: a book_slot call that finds the slot's lock held is over in that
\* step with 429, and the step changes no slot row and no lock.
C21_ContentionFailsFast ==
    [][\A p \in Procs :
          (pc[p] = "call" /\ pc'[p] # "call" /\ lock[req[p]])
              => /\ pc'[p] = "done"
                 /\ code'[p] = 429
                 /\ UNCHANGED <<slots, lock>>]_vars

\* C21 witness: a call was answered 429 while another handler is inside the
\* critical section of the same slot, its lock still held
C21_Witness ==
    \E p, q \in Procs :
        /\ pc[p] = "done" /\ code[p] = 429
        /\ pc[q] = "locked" /\ req[q] = req[p] /\ lock[req[p]]
        /\ slots[req[p]].current_orders = callCur[p]

\* C22: a held lock is always dropped in the end, also when its holder has
\* crashed; every call of book_slot ends (or its worker dies); a call that
\* finds no lock acquires it, and a handler that acquired it on a request
\* that found free capacity books: it is answered 200 and writes one more
\* than it read.
C22_CrashedHolderDoesNotBlock ==
    /\ \A s \in SlotIds : lock[s] ~> ~lock[s]
    /\ \A p \in Procs : (pc[p] = "call") ~> (pc[p] \in {"done", "crashed"})
    /\ [][\A p \in Procs :
            /\ (pc[p] = "call" /\ pc'[p] # "call" /\ ~lock[req[p]])
                  => pc'[p] = "locked" /\ lock'[req[p]]
            /\ (/\ pc[p] = "locked" /\ pc'[p] = "release"
                /\ sess[p].current_orders < slots[req[p]].max_orders)
                  => /\ code'[p] = 200
                     /\ slots'[req[p]].current_orders =
                            sess[p].current_orders + 1]_vars

\* C22 witness: p crashed after its commit without deleting the key; q, whose
\* request came after the crash, found the key gone and booked
C22_Witness ==
    \E p, q \in Procs :
        /\ pc[p] = "crashed" /\ callCur[p] = 0
        /\ pc[q] = "done" /\ code[q] = 200 /\ req[q] = req[p]
        /\ callCur[q] = 1 /\ p \notin conc[q]
        /\ slots[req[p]].current_orders = 2

\* C25: a handler that acquired the lock and is not killed reaches its
\* response, and it leaves the critical section only by the step that
\* deletes the key: right after that step the key is not set.
C25_LockAlwaysReleased ==
    /\ \A p \in Procs : (pc[p] = "locked") ~> (pc[p] \in {"done", "crashed"})
    /\ [][\A p \in Procs :
            (pc[p] \in {"locked", "release"} /\ pc'[p] = "done")
                => pc[p] = "release" /\ ~lock'[req[p]]]_vars

\* C25 witness: one call ended on the slot-full path and one on the success
\* path, and the key is not set
C25_Witness ==
    \E p, q \in Procs :
        /\ pc[p] = "done" /\ code[p] = 400
        /\ pc[q] = "done" /\ code[q] = 200 /\ req[q] = req[p]
        /\ ~lock[req[p]]

\* C26 (as claimed): a step that changes an existing slot's current_orders or
\* status is the commit of a handler that is inside book_slot for that slot
\* while the slot's key is set, and it does not decrease current_orders.
C26_OnlyLockHolderMutates ==
    [][\A s \in SlotIds :
          (/\ SlotExists(s)
           /\ \/ slots'[s].current_orders # slots[s].current_orders
              \/ slots'[s].status # slots[s].status)
              => /\ lock[s]
                 /\ \E p \in Procs :
                       pc[p] = "locked" /\ req[p] = s /\ pc'[p] = "release"
                 /\ slots'[s].current_orders >= slots[s].current_orders]_vars

\* C27 (as claimed): for every slot, the number of order rows that reference
\* it does not exceed its max_orders.
C27_OrdersWithinCapacity ==
    \A s \in SlotIds :
        SlotExists(s) =>
            Cardinality({o \in OrderRows : OrderExists(o) /\ orders[o].slot_id = s})
                <= slots[s].max_orders

\* C29 (as claimed): when a place_order request has been answered 409,
\* another request of the same user with the same key has created an order,
\* or is still being served.
C29_DuplicateMeansOrderExists ==
    \A p \in Procs :
        (ppc[p] = "done" /\ preq[p].code = 409)
            => \E q \in Procs \ {p} :
                  /\ preq[q].user = preq[p].user
                  /\ preq[q].key = preq[p].key
                  /\ preq[q].order # 0 \/ ppc[q] # "done"

\* C30 (as claimed): a place_order request that ended with an error response
\* has created no Order row.
C30_PlaceOrderAllOrNothing ==
    \A p \in Procs :
        (ppc[p] = "done" /\ preq[p].code # 200) => preq[p].order = 0

\* C28 (as claimed): no order has more than one ORDER_COMPLETION reward
\* transaction.
C28_RewardsAtMostOnce ==
    \A o \in OrderRows : reward_transactions[o] <= 1

\* C23: confirm_pickup returns True exactly when the QR code's order belongs
\* to the confirming vendor and is READY_FOR_PICKUP, and then the order is
\* COMPLETED with pickup_confirmed_by = vendor; otherwise it returns False
\* and leaves the orders table as it is. A step that records
\* pickup_confirmed_by does so on a READY_FOR_PICKUP order of that vendor,
\* and a step that gives an order its QR code finds it READY_FOR_PICKUP.
C23_QrPickup ==
    /\ [](\A v \in Vendors, o \in OrderIds :
            IF /\ OrderExists(o) /\ orders[o].qr_code
               /\ orders[o].vendor_id = v
               /\ orders[o].status = "READY_FOR_PICKUP"
            THEN /\ ConfirmPickupResult(v, o).ok
                 /\ ConfirmPickupResult(v, o).orders =
                        [orders EXCEPT ![o].status = "COMPLETED",
                                       ![o].pickup_confirmed_by = v]
            ELSE /\ ~ConfirmPickupResult(v, o).ok
                 /\ ConfirmPickupResult(v, o).orders = orders)
    /\ [][\A o \in OrderIds :
            /\ orders'[o].pickup_confirmed_by # orders[o].pickup_confirmed_by
                  => /\ orders[o].status = "READY_FOR_PICKUP"
                     /\ orders[o].qr_code
                     /\ orders'[o].status = "COMPLETED"
                     /\ orders'[o].pickup_confirmed_by = orders[o].vendor_id
            /\ (orders'[o].qr_code /\ ~orders[o].qr_code)
                  => orders[o].status = "READY_FOR_PICKUP"]_vars

\* C23 witness: an order that carries a QR code was completed by QR pickup,
\* confirmed by its vendor
C23_Witness ==
    \E o \in OrderIds :
        /\ orders[o].status = "COMPLETED"
        /\ orders[o].qr_code
        /\ orders[o].pickup_confirmed_by = orders[o].vendor_id
        /\ orders[o].pickup_confirmed_by \in Vendors

\* C24 (as claimed): an order in READY_FOR_PICKUP is reached.
C24_ReadyForPickupReachable ==
    <>(\E o \in OrderRows : orders[o].status = "READY_FOR_PICKUP")

\* no order is ever READY_FOR_PICKUP
NeverReadyForPickup ==
    \A o \in OrderRows : orders[o].status # "READY_FOR_PICKUP"

====
